---- MODULE Spec2Model ----
(***************************************************************************)
(* Model of asana-update-summarizer.                                       *)
(*                                                                         *)
(*   src/index.ts   the linear prompt program (function main)              *)
(*   src/index.tsx  the ink/React program (component App), a tagged-union  *)
(*                  state machine driven by handlers and three effects     *)
(*                                                                         *)
(* Texts are sequences of atoms.  An atom is a string without a line       *)
(* break, or the atom "\n" itself, so that the lines of a rendered table   *)
(* can be counted and split.  An optional value (a TypeScript `x?: T`) is  *)
(* a sequence of length 0 (undefined) or 1.                                *)
(***************************************************************************)
EXTENDS Integers, Sequences, FiniteSets, Bags, TLC

VARIABLES
    variant,     \* which program runs: "app" (index.tsx), "cli" (index.ts)
    state,       \* App: the AppState tagged union
    pat,         \* App: the credential text (useState pat)
    me,          \* App: the current user, once fetched (useState me)
    workspaces,  \* App: the workspaces, once fetched (useState workspaces)
    error,       \* the diagnostic shown (App: useState error; main: console.error)
    cli,         \* main: its locals and its position
    inflight,    \* the requests sent and not yet answered (a bag)
    checks,      \* how many credential checks (GET /users/me) were sent
    clipboard,   \* what clipboardy.writeSync received, if anything
    exited,      \* the process has ended
    hist,        \* history: the user's answers and the calls made so far
    fx           \* the pure functions on their own: input and results

progVars ==
    <<variant, state, pat, me, workspaces, error, cli, inflight, checks, clipboard, exited, hist>>

vars == <<progVars, fx>>

\* ------------------------------------------------------------------ bounds

\* Longest task list a fetch returns.
MaxTasks == 2

\* Most credential checks (GET /users/me) one run sends.
MaxCredentialChecks == 2

\* ------------------------------------------------------------- data model

None == <<>>

Some(x) == <<x>>

\* A text of one atom.
S(a) == <<a>>

NL == "\n"

\* JavaScript truthiness of an optional string: undefined and "" are falsy.
Truthy(ms) == ms # None /\ ms[1] # <<>>

\* `ms || dflt` for an optional string.
OrElse(ms, dflt) == IF Truthy(ms) THEN ms[1] ELSE dflt

\* A modified_at string: an ISO instant (here: a day number), or a string
\* Date cannot parse, or the empty string.
Iso(d) == [kind |-> "iso", day |-> d]

BadDate == [kind |-> "bad", day |-> 0]

EmptyDate == [kind |-> "empty", day |-> 0]

\* new Date(string): the instant, or Invalid Date (None).
DateParse(s) == IF s.kind = "iso" THEN Some(s.day) ELSE None

\* `a >= b` on Dates: any comparison with Invalid Date (NaN) is false.
DateGe(a, b) == a # None /\ b # None /\ a[1] >= b[1]

\* The trailing window, in days: setDate(getDate() - 7).
WindowDays == 7

\* new Date() when the task response is handled.
Now == 20

SevenDaysAgo(now) == now - WindowDays

Membership(p, s) == [project |-> p, section |-> s]

Project(gid, name) == [gid |-> gid, name |-> name]

Section(name) == [name |-> name]

Task(gid, name, modified, memberships) ==
    [gid |-> gid, name |-> name, modified_at |-> modified,
     memberships |-> memberships]

\* The tasks the service may return (type Task of both programs).
TaskReport ==
    Task(S("1"), Some(S("Write report")), Some(Iso(Now - 1)),
         << Membership(Some(Project(Some(S("p1")), Some(S("Ops")))),
                       Some(Section(Some(S("Doing"))))),
            Membership(Some(Project(Some(S("p2")), Some(S("Infra")))),
                       Some(Section(Some(S("Later"))))) >>)

TaskEdge ==
    Task(S("2"), Some(S("Fix bug")), Some(Iso(Now - WindowDays)), <<>>)

TaskNameless ==
    Task(S("3"), None, Some(Iso(Now)),
         << Membership(Some(Project(None, Some(S("Web")))), None) >>)

TaskOld ==
    Task(S("4"), Some(S("Old one")), Some(Iso(Now - 10)),
         << Membership(None, Some(Section(Some(S("Done"))))) >>)

TaskUndated ==
    Task(S("5"), Some(S("Undated")), None,
         << Membership(Some(Project(Some(S("p1")), Some(<<>>))),
                       Some(Section(None))) >>)

TaskBadDate == Task(S("6"), Some(S("Garbled")), Some(BadDate), <<>>)

TaskEmptyDate == Task(S("7"), Some(S("Blank")), Some(EmptyDate), <<>>)

Tasks ==
    {TaskReport, TaskEdge, TaskNameless, TaskOld, TaskUndated, TaskBadDate,
     TaskEmptyDate}

\* Sequences over S of length at most n without a repeated element (task
\* identifiers are unique within a response).
RECURSIVE DistinctSeqs(_, _)
DistinctSeqs(set, n) ==
    IF n = 0 THEN {<<>>}
    ELSE LET shorter == DistinctSeqs(set, n - 1)
             longest == {r \in shorter : Len(r) = n - 1}
         IN shorter \cup
            UNION {{Append(r, x) :
                      x \in {y \in set : \A i \in 1..Len(r) : r[i] # y}} :
                   r \in longest}

\* ------------------------------------------------------------ Task Filter

\* The predicate of tasks.filter(...): `!task.modified_at` rejects undefined
\* and "", then new Date(task.modified_at) >= sevenDaysAgo.
\* A filter that drops a task modified exactly at the cutoff.
IsRecentStrictly(task, sevenDaysAgo) ==
    IF task.modified_at = None \/ task.modified_at[1].kind = "empty"
    THEN FALSE
    ELSE LET d == DateParse(task.modified_at[1])
         IN d # None /\ d[1] > sevenDaysAgo

IsRecent(task, sevenDaysAgo) ==
    IF task.modified_at = None \/ task.modified_at[1].kind = "empty"
    THEN FALSE
    ELSE DateGe(DateParse(task.modified_at[1]), Some(sevenDaysAgo))

\* Array.prototype.filter: the elements that satisfy the predicate, in order.
RECURSIVE RecentTasks(_, _)
RecentTasks(tasks, sevenDaysAgo) ==
    IF tasks = <<>> THEN <<>>
    ELSE (IF IsRecent(Head(tasks), sevenDaysAgo) THEN <<Head(tasks)>>
          ELSE <<>>) \o RecentTasks(Tail(tasks), sevenDaysAgo)

\* ------------------------------------------------------- Summary Renderer

\* task.memberships?.[0]
FirstMembership(task) ==
    IF Len(task.memberships) = 0 THEN None ELSE Some(task.memberships[1])

\* task.memberships?.[0]?.project?.name
FirstProjectName(task) ==
    LET m == FirstMembership(task)
    IN IF m = None \/ m[1].project = None THEN None ELSE m[1].project[1].name

\* task.memberships?.[0]?.section?.name
FirstSectionName(task) ==
    LET m == FirstMembership(task)
    IN IF m = None \/ m[1].section = None THEN None ELSE m[1].section[1].name

\* task.memberships?.[0]?.project?.gid
FirstProjectGid(task) ==
    LET m == FirstMembership(task)
    IN IF m = None \/ m[1].project = None THEN None ELSE m[1].project[1].gid

UrlBase == S("https://app.asana.com/")

\* getTaskUrl of index.tsx: the workspace segment is the literal 0.
getTaskUrl(task) ==
    LET projectGid == FirstProjectGid(task)
    IN IF Truthy(projectGid)
       THEN UrlBase \o S("0") \o S("/") \o projectGid[1] \o S("/") \o task.gid
       ELSE UrlBase \o S("0/0/") \o task.gid

\* The url of index.ts: the workspace segment is the selected workspace.
mainTaskUrl(task, selectedWorkspace) ==
    LET projectGid == FirstProjectGid(task)
    IN IF Truthy(projectGid)
       THEN UrlBase \o selectedWorkspace \o S("/") \o projectGid[1]
                    \o S("/") \o task.gid
       ELSE UrlBase \o S("0/0/") \o task.gid

HeaderRow == S("| Project | Section | Name | URL | Status | Comment |")

SeparatorRow == S("|---|---|---|---|---|---|")

\* `| ${project} | ${section} | ${name} | ${url} | ${status} | ${comment} |\n`
TableRow(workedOnTask, url) ==
    LET task == workedOnTask.task
    IN S("| ") \o OrElse(FirstProjectName(task), <<>>)
       \o S(" | ") \o OrElse(FirstSectionName(task), <<>>)
       \o S(" | ") \o OrElse(task.name, <<>>)
       \o S(" | ") \o url
       \o S(" | ") \o workedOnTask.status
       \o S(" | ") \o workedOnTask.comment
       \o S(" |") \o S(NL)

RECURSIVE TableRows(_)
TableRows(workedOnTasks) ==
    IF workedOnTasks = <<>> THEN <<>>
    ELSE TableRow(Head(workedOnTasks), getTaskUrl(Head(workedOnTasks).task))
         \o TableRows(Tail(workedOnTasks))

\* A renderer that forgets the separator row.
generateSummaryTableNoSeparator(workedOnTasks) ==
    HeaderRow \o S(NL) \o TableRows(workedOnTasks)

\* generateSummaryTable of index.tsx.
generateSummaryTable(workedOnTasks) ==
    HeaderRow \o S(NL) \o SeparatorRow \o S(NL) \o TableRows(workedOnTasks)

RECURSIVE mainTableRows(_, _)
mainTableRows(workedOnTasks, selectedWorkspace) ==
    IF workedOnTasks = <<>> THEN <<>>
    ELSE TableRow(Head(workedOnTasks),
                  mainTaskUrl(Head(workedOnTasks).task, selectedWorkspace))
         \o mainTableRows(Tail(workedOnTasks), selectedWorkspace)

\* The table main of index.ts builds before printing it.
mainTable(workedOnTasks, selectedWorkspace) ==
    HeaderRow \o S(NL) \o SeparatorRow \o S(NL)
    \o mainTableRows(workedOnTasks, selectedWorkspace)

\* What a reader of the table sees: its lines, each ended by a line break.
RECURSIVE LinesFrom(_, _)
LinesFrom(text, line) ==
    IF text = <<>> THEN (IF line = <<>> THEN <<>> ELSE <<line>>)
    ELSE IF Head(text) = NL THEN <<line>> \o LinesFrom(Tail(text), <<>>)
    ELSE LinesFrom(Tail(text), Append(line, Head(text)))

Lines(text) == LinesFrom(text, <<>>)

HasLineBreak(text) == \E i \in 1..Len(text) : text[i] = NL

\* ---------------------------------------------------------------- prompts

\* `${x}` in a template string: an absent value prints as undefined.
Templated(ms) == IF ms = None THEN S("undefined") ELSE ms[1]

\* {x} in JSX: an absent value prints nothing.
Jsx(ms) == IF ms = None THEN <<>> ELSE ms[1]

\* A prompt label that falls back to the empty cell of the summary.
PromptProjectEmpty(task) == OrElse(FirstProjectName(task), <<>>)

\* task.memberships?.[0]?.project?.name || "No Project"
PromptProject(task) == OrElse(FirstProjectName(task), S("No Project"))

\* task.memberships?.[0]?.section?.name || "No Section"
PromptSection(task) == OrElse(FirstSectionName(task), S("No Section"))

\* (${project} / ${section})
PromptPlace(task) ==
    S("(") \o PromptProject(task) \o S(" / ") \o PromptSection(task) \o S(")")

\* index.ts: the message of the include question.
includePrompt(task) ==
    S("Add \"") \o Templated(task.name) \o S("\" ") \o PromptPlace(task)
    \o S(" to the list of tasks worked on today?")

\* index.tsx: the label of a MultiSelect option.
optionLabel(task) ==
    Templated(task.name) \o S(" ") \o PromptPlace(task)

\* index.tsx: the three questions of the review states.
statusPrompt(task) ==
    S("Status for \"") \o Jsx(task.name) \o S("\" ") \o PromptPlace(task)
    \o S(": ")

commentPrompt(task) ==
    S("Comment for \"") \o Jsx(task.name) \o S("\" ") \o PromptPlace(task)
    \o S(": ")

postCommentPrompt(task) ==
    S("Post comment to \"") \o Jsx(task.name) \o S("\" ") \o PromptPlace(task)
    \o S("? ")

\* Every prompt that names the task.
TaskPrompts(task) ==
    << includePrompt(task), optionLabel(task), statusPrompt(task),
       commentPrompt(task), postCommentPrompt(task) >>

\* ---------------------------------------- the pure functions on their own

\* Cutoffs around the tasks' timestamps: earlier than, at and later than the
\* instant of TaskEdge.
Cutoffs == {SevenDaysAgo(Now) + d : d \in {-1, 0, 1}}

WorkspaceGids == {S("w1"), S("w2")}

\* What the user types as status and comment: nothing, a plain text, a text
\* with a pipe, a text with a line break.
Answers ==
    { [status |-> <<>>, comment |-> <<>>],
      [status |-> S("done"), comment |-> S("Shipped it")],
      [status |-> S("a|b"), comment |-> <<"first", NL, "second">>] }

WorkedOnTask(task, status, comment) ==
    [task |-> task, status |-> status, comment |-> comment]

\* The decision sequences over a task list: one answer per task.
RECURSIVE DecisionSeqs(_)
DecisionSeqs(tasks) ==
    IF tasks = <<>> THEN {<<>>}
    ELSE {<<WorkedOnTask(Head(tasks), a.status, a.comment)>> \o rest :
             a \in Answers, rest \in DecisionSeqs(Tail(tasks))}

\* filtered: the task list last put before the user; chosen: the identifiers
\* the user included; typedStatus, typedComment: the texts last typed;
\* confirmed: the identifiers whose post the user confirmed; posted: the
\* identifiers a comment was posted to; readFailed: a read call failed;
\* copyAnswer: the answer to the clipboard question.
HistIdle ==
    [filtered |-> <<>>, chosen |-> {},
     typedStatus |-> <<>>, typedComment |-> <<>>, confirmed |-> {},
     posted |-> {}, readFailed |-> FALSE, copyAnswer |-> None]

CliIdle ==
    [pc |-> "idle", token |-> <<>>, me |-> None, workspaces |-> <<>>,
     selectedWorkspace |-> <<>>, recentTasks |-> <<>>, i |-> 0,
     status |-> <<>>, comment |-> <<>>, workedOnTasks |-> <<>>,
     table |-> <<>>]

\* No program runs: the pure functions are exercised on their own.
ProgIdle ==
    /\ variant = "none"
    /\ state = [name |-> "pat"]
    /\ pat = <<>>
    /\ me = None
    /\ workspaces = <<>>
    /\ error = None
    /\ cli = CliIdle
    /\ inflight = EmptyBag
    /\ checks = 0
    /\ clipboard = None
    /\ exited = FALSE
    /\ hist = HistIdle

FxIdle ==
    [phase |-> "idle", tasks |-> <<>>, cutoff |-> 0, recent |-> <<>>,
     again |-> <<>>, worked |-> <<>>, workspace |-> <<>>, table |-> <<>>,
     cliTable |-> <<>>, prompts |-> <<>>]

InitPure ==
    /\ ProgIdle
    /\ \E tasks \in DistinctSeqs(Tasks, MaxTasks), cutoff \in Cutoffs :
          fx = [FxIdle EXCEPT !.phase = "input", !.tasks = tasks,
                              !.cutoff = cutoff]

\* tasks.filter(...) applied to the input.
FilterStep ==
    /\ fx.phase = "input"
    /\ fx' = [fx EXCEPT !.phase = "filtered",
                        !.recent = RecentTasks(fx.tasks, fx.cutoff)]

\* The filter applied to its own result.
RefilterStep ==
    /\ fx.phase = "filtered"
    /\ fx' = [fx EXCEPT !.phase = "refiltered",
                        !.again = RecentTasks(fx.recent, fx.cutoff)]

\* Both renderers applied to a decision sequence.
RenderStep ==
    /\ fx.phase = "input"
    /\ \E worked \in DecisionSeqs(fx.tasks), ws \in WorkspaceGids :
         fx' = [fx EXCEPT !.phase = "rendered", !.worked = worked,
                          !.workspace = ws,
                          !.table = generateSummaryTable(worked),
                          !.cliTable = mainTable(worked, ws)]

\* The prompts the programs put before the user for each task of a rendered
\* decision sequence.
PromptStep ==
    /\ fx.phase = "rendered"
    /\ fx' = [fx EXCEPT !.phase = "prompted",
                        !.prompts = [i \in 1..Len(fx.worked) |->
                                        TaskPrompts(fx.worked[i].task)]]

NextPure ==
    (FilterStep \/ RefilterStep \/ RenderStep \/ PromptStep)
    /\ UNCHANGED progVars

SpecPure == InitPure /\ [][NextPure]_vars

\* --------------------------------------------------------------- claim C9

\* The specification's reading of "has a modification timestamp not earlier
\* than the cutoff".
NotEarlier(task, cutoff) ==
    /\ task.modified_at # None
    /\ task.modified_at[1].kind = "iso"
    /\ task.modified_at[1].day >= cutoff

PositionIn(seq, x) == CHOOSE i \in 1..Len(seq) : seq[i] = x

\* C9: the Task Filter returns exactly the tasks whose modification timestamp
\* is present and not earlier than the cutoff, in their original relative
\* order; tasks without a timestamp are excluded; filtering the result again
\* with the same cutoff returns it unchanged.
C9_FilterExactOrderedIdempotent ==
    /\ fx.phase \in {"filtered", "refiltered"} =>
         /\ \A t \in Tasks :
              (\E i \in 1..Len(fx.recent) : fx.recent[i] = t)
              <=> (\E j \in 1..Len(fx.tasks) :
                      fx.tasks[j] = t /\ NotEarlier(t, fx.cutoff))
         /\ Len(fx.recent)
              = Cardinality({j \in 1..Len(fx.tasks) :
                               NotEarlier(fx.tasks[j], fx.cutoff)})
         /\ \A i, k \in 1..Len(fx.recent) :
              i < k => PositionIn(fx.tasks, fx.recent[i])
                         < PositionIn(fx.tasks, fx.recent[k])
         /\ \A i \in 1..Len(fx.recent) : fx.recent[i].modified_at # None
    /\ fx.phase = "refiltered" => fx.again = fx.recent

\* A list holding an undated task and a task modified exactly at the cutoff:
\* the first is dropped, the second kept, and the second pass changes nothing.
C9_Witness ==
    /\ fx.phase = "refiltered"
    /\ Len(fx.tasks) = 2
    /\ \E i \in 1..2 : fx.tasks[i].modified_at = None
    /\ Len(fx.recent) = 1
    /\ fx.recent[1].modified_at[1].day = fx.cutoff

\* -------------------------------------------------------------- claim C10

Cells(workedOnTask, url) ==
    << OrElse(FirstProjectName(workedOnTask.task), <<>>),
       OrElse(FirstSectionName(workedOnTask.task), <<>>),
       OrElse(workedOnTask.task.name, <<>>), url, workedOnTask.status,
       workedOnTask.comment >>

NoLineBreakIn(workedOnTasks, ws) ==
    \A i \in 1..Len(workedOnTasks) :
       \A url \in {getTaskUrl(workedOnTasks[i].task),
                   mainTaskUrl(workedOnTasks[i].task, ws)} :
          \A c \in 1..6 : ~HasLineBreak(Cells(workedOnTasks[i], url)[c])

\* The row a decision is to contribute: the six cells between pipes.
ExpectedRow(cells) ==
    S("| ") \o cells[1] \o S(" | ") \o cells[2] \o S(" | ") \o cells[3]
    \o S(" | ") \o cells[4] \o S(" | ") \o cells[5] \o S(" | ") \o cells[6]
    \o S(" |")

\* C10 as stated: for every decision sequence D the rendered table has
\* exactly len(D) + 2 lines.
C10_Original ==
    fx.phase = "rendered" =>
       /\ Len(Lines(fx.table)) = Len(fx.worked) + 2
       /\ Len(Lines(fx.cliTable)) = Len(fx.worked) + 2

\* C10 amended: for every decision sequence D whose cells hold no line break,
\* the rendered table has exactly len(D) + 2 lines: the six-column header, the
\* separator row, and one row per decision in the order of D.
C10_LinesWhenNoLineBreak ==
    (fx.phase = "rendered" /\ NoLineBreakIn(fx.worked, fx.workspace)) =>
       /\ Len(Lines(fx.table)) = Len(fx.worked) + 2
       /\ Len(Lines(fx.cliTable)) = Len(fx.worked) + 2
       /\ Lines(fx.table)[1] = HeaderRow
       /\ Lines(fx.table)[2] = SeparatorRow
       /\ Lines(fx.cliTable)[1] = HeaderRow
       /\ Lines(fx.cliTable)[2] = SeparatorRow
       /\ \A i \in 1..Len(fx.worked) :
            /\ Lines(fx.table)[i + 2]
                 = ExpectedRow(Cells(fx.worked[i],
                                     getTaskUrl(fx.worked[i].task)))
            /\ Lines(fx.cliTable)[i + 2]
                 = ExpectedRow(Cells(fx.worked[i],
                                     mainTaskUrl(fx.worked[i].task,
                                                 fx.workspace)))

\* Two decisions without a line break rendered to four lines, and the empty
\* sequence rendered to two.
C10_Witness ==
    /\ fx.phase = "rendered"
    /\ Len(fx.worked) = 2
    /\ NoLineBreakIn(fx.worked, fx.workspace)
    /\ fx.worked[1].comment # <<>>
    /\ Len(Lines(fx.table)) = 4

\* ====================================================== the two programs

\* Credential texts: none, and a non-empty one.
Pats == {<<>>, S("t")}

Statuses == {S("done")}

Comments == {S("Shipped it")}

\* The tasks the service answers with in a run of a program.
FetchedTasks == {TaskReport, TaskEdge, TaskOld}

TaskLists == DistinctSeqs(FetchedTasks, MaxTasks)

WorkspaceLists == {<<>>, <<S("w1")>>}

\* The user records GET /users/me can answer with: with and without a gid.
Users == {[gid |-> Some(S("u1"))], [gid |-> None]}

\* What a request is answered with: a payload ({data: {data: ...}}), a
\* response without a usable payload (data undefined, as for an HTTP error),
\* or a rejected promise (the network failed).
Data(x) == [kind |-> "data", data |-> <<x>>]

NoData == [kind |-> "nodata", data |-> <<>>]

Rejected == [kind |-> "reject", data |-> <<>>]

Outcomes(payloads) == {Data(x) : x \in payloads} \cup {NoData, Rejected}

Gids(tasks) == {tasks[i].gid : i \in 1..Len(tasks)}

\* A request on the wire.  pat is the bearer credential of the client that
\* sent it.
Request(kind, cred, workspace, assignee, task, text) ==
    [kind |-> kind, pat |-> cred, workspace |-> workspace,
     assignee |-> assignee, task |-> task, text |-> text]

RECURSIVE BagOfSeq(_)
BagOfSeq(reqs) ==
    IF reqs = <<>> THEN EmptyBag
    ELSE SetToBag({Head(reqs)}) (+) BagOfSeq(Tail(reqs))

\* The requests `done` are answered and the requests `reqs` are sent.
Net(done, reqs) ==
    LET credentialChecks ==
          Cardinality({k \in 1..Len(reqs) : reqs[k].kind = "me"})
    IN /\ checks + credentialChecks <= MaxCredentialChecks
       /\ inflight' = (inflight (-) SetToBag(done)) (+) BagOfSeq(reqs)
       /\ checks' = checks + credentialChecks

\* ------------------------------------------------------ index.tsx: App

\* A credential check that does not look at whether pat is empty.
CredentialEffectAnyPat(st, p, stateChanged, patChanged) ==
    IF (stateChanged \/ patChanged) /\ st.name = "pat"
    THEN <<Request("me", p, <<>>, None, <<>>, <<>>)>>
    ELSE <<>>

\* useEffect(..., [pat, state]): the credential check.
CredentialEffect(st, p, stateChanged, patChanged) ==
    IF (stateChanged \/ patChanged) /\ p # <<>> /\ st.name = "pat"
    THEN <<Request("me", p, <<>>, None, <<>>, <<>>)>>
    ELSE <<>>

\* useEffect(..., [state]): the workspaces fetch.
WorkspacesEffect(st, stateChanged) ==
    IF stateChanged /\ st.name = "workspaces"
    THEN <<Request("workspaces", st.client, <<>>, None, <<>>, <<>>)>>
    ELSE <<>>

\* useEffect(..., [state, me]): the tasks fetch.
TasksEffect(st, m, stateChanged, meChanged) ==
    IF (stateChanged \/ meChanged) /\ st.name = "tasks"
       /\ m # None /\ Truthy(m[1].gid)
    THEN <<Request("tasks", st.client, st.workspace, m[1].gid, <<>>, <<>>)>>
    ELSE <<>>

\* The effects React runs after a render, given which dependencies changed
\* (a setState with a fresh object always changes `state`).
Effects(st, p, m, stateChanged, patChanged, meChanged) ==
    CredentialEffect(st, p, stateChanged, patChanged)
    \o WorkspacesEffect(st, stateChanged)
    \o TasksEffect(st, m, stateChanged, meChanged)

\* The component renders its prompts only while no error is set.
AppUi == variant = "app" /\ ~exited /\ error = None

\* state.selectedTasks[state.currentTaskIndex], when there is one.
CurrentTask(st) ==
    IF st.currentTaskIndex + 1 \in 1..Len(st.selectedTasks)
    THEN Some(st.selectedTasks[st.currentTaskIndex + 1])
    ELSE None

\* The state after mount: the first render and its effects.
InitApp ==
    /\ variant = "app"
    /\ state = [name |-> "pat"]
    /\ pat \in Pats
    /\ me = None
    /\ workspaces = <<>>
    /\ error = None
    /\ cli = CliIdle
    /\ LET reqs == Effects(state, pat, me, TRUE, TRUE, TRUE)
       IN /\ inflight = BagOfSeq(reqs)
          /\ checks = Len(reqs)
    /\ clipboard = None
    /\ exited = FALSE
    /\ hist = HistIdle
    /\ fx = FxIdle

\* TextInput onChange={setPat} and onSubmit={handlePatSubmit}: setPat(value).
handlePatSubmit(value) ==
    /\ AppUi
    /\ state.name = "pat"
    /\ value # pat
    /\ pat' = value
    /\ Net({}, Effects(state, value, me, FALSE, TRUE, FALSE))
    /\ hist' = hist
    /\ UNCHANGED <<variant, state, me, workspaces, error, cli, clipboard,
                   exited, fx>>

\* The .then / .catch of the credential check.
UserResponse(r, outcome) ==
    /\ variant = "app" /\ ~exited
    /\ BagIn(r, inflight) /\ r.kind = "me"
    /\ \/ /\ outcome.kind = "data"
          /\ me' = outcome.data
          /\ state' = [name |-> "workspaces", client |-> r.pat]
          /\ Net({r}, Effects(state', pat, me', TRUE, FALSE, TRUE))
          /\ hist' = hist
          /\ UNCHANGED error
       \/ /\ outcome.kind = "nodata"
          /\ error' = Some("Could not fetch user. Please check your PAT.")
          /\ state' = [name |-> "pat"]
          /\ Net({r}, Effects(state', pat, me, TRUE, FALSE, FALSE))
          /\ hist' = [hist EXCEPT !.readFailed = TRUE]
          /\ UNCHANGED me
       \/ /\ outcome.kind = "reject"
          /\ error' = Some("Error connecting to Asana.")
          /\ Net({r}, <<>>)
          /\ hist' = [hist EXCEPT !.readFailed = TRUE]
          /\ UNCHANGED <<state, me>>
    /\ UNCHANGED <<variant, pat, workspaces, cli, clipboard, exited, fx>>

\* The .then of the workspaces fetch (it has no .catch).
WorkspacesResponse(r, outcome) ==
    /\ variant = "app" /\ ~exited
    /\ BagIn(r, inflight) /\ r.kind = "workspaces"
    /\ \/ /\ outcome.kind = "data"
          /\ workspaces' = outcome.data[1]
          /\ hist' = hist
          /\ UNCHANGED error
       \/ /\ outcome.kind = "nodata"
          /\ error' = Some("Could not fetch workspaces.")
          /\ hist' = [hist EXCEPT !.readFailed = TRUE]
          /\ UNCHANGED workspaces
       \/ /\ outcome.kind = "reject"
          /\ hist' = [hist EXCEPT !.readFailed = TRUE]
          /\ UNCHANGED <<workspaces, error>>
    /\ Net({r}, <<>>)
    /\ UNCHANGED <<variant, state, pat, me, cli, clipboard, exited, fx>>

handleWorkspaceSelect(value) ==
    /\ AppUi
    /\ state.name = "workspaces"
    /\ \E k \in 1..Len(workspaces) : workspaces[k] = value
    /\ state' = [name |-> "tasks", client |-> state.client,
                 workspace |-> value]
    /\ Net({}, Effects(state', pat, me, TRUE, FALSE, FALSE))
    /\ hist' = hist
    /\ UNCHANGED <<variant, pat, me, workspaces, error, cli, clipboard,
                   exited, fx>>

\* The .then of the tasks fetch (it has no .catch).
TasksResponse(r, outcome) ==
    /\ variant = "app" /\ ~exited
    /\ BagIn(r, inflight) /\ r.kind = "tasks"
    /\ \/ /\ outcome.kind = "data"
          /\ LET recent == RecentTasks(outcome.data[1], SevenDaysAgo(Now))
             IN /\ state' = [name |-> "selectTasks", client |-> r.pat,
                             tasks |-> recent]
                /\ hist' = [hist EXCEPT !.filtered = recent]
          /\ Net({r}, Effects(state', pat, me, TRUE, FALSE, FALSE))
          /\ UNCHANGED error
       \/ /\ outcome.kind = "nodata"
          /\ error' = Some("Could not fetch tasks.")
          /\ Net({r}, <<>>)
          /\ hist' = [hist EXCEPT !.readFailed = TRUE]
          /\ UNCHANGED state
       \/ /\ outcome.kind = "reject"
          /\ Net({r}, <<>>)
          /\ hist' = [hist EXCEPT !.readFailed = TRUE]
          /\ UNCHANGED <<state, error>>
    /\ UNCHANGED <<variant, pat, me, workspaces, cli, clipboard, exited, fx>>

handleTasksSelect(values) ==
    /\ AppUi
    /\ state.name = "selectTasks"
    /\ values \subseteq Gids(state.tasks)
    /\ LET selectedTasks ==
             SelectSeq(state.tasks, LAMBDA task : task.gid \in values)
       IN state' = [name |-> "status", client |-> state.client,
                    selectedTasks |-> selectedTasks, workedOnTasks |-> <<>>,
                    currentTaskIndex |-> 0]
    /\ Net({}, Effects(state', pat, me, TRUE, FALSE, FALSE))
    /\ hist' = [hist EXCEPT !.chosen = values]
    /\ UNCHANGED <<variant, pat, me, workspaces, error, cli, clipboard,
                   exited, fx>>

\* The status TextInput is rendered only when the current task exists.
handleStatusSubmit(value) ==
    /\ AppUi
    /\ state.name = "status"
    /\ CurrentTask(state) # None
    /\ state' = [name |-> "comment", client |-> state.client,
                 selectedTasks |-> state.selectedTasks,
                 workedOnTasks |-> state.workedOnTasks,
                 currentTaskIndex |-> state.currentTaskIndex,
                 status |-> value]
    /\ Net({}, Effects(state', pat, me, TRUE, FALSE, FALSE))
    /\ hist' = [hist EXCEPT !.typedStatus = value]
    /\ UNCHANGED <<variant, pat, me, workspaces, error, cli, clipboard,
                   exited, fx>>

handleCommentSubmit(value) ==
    /\ AppUi
    /\ state.name = "comment"
    /\ CurrentTask(state) # None
    /\ state' = [name |-> "postComment", client |-> state.client,
                 selectedTasks |-> state.selectedTasks,
                 workedOnTasks |-> state.workedOnTasks,
                 currentTaskIndex |-> state.currentTaskIndex,
                 status |-> state.status, comment |-> value]
    /\ Net({}, Effects(state', pat, me, TRUE, FALSE, FALSE))
    /\ hist' = [hist EXCEPT !.typedComment = value]
    /\ UNCHANGED <<variant, pat, me, workspaces, error, cli, clipboard,
                   exited, fx>>

\* The POST is sent and not awaited; the decision is recorded at once.
handlePostComment(value) ==
    /\ AppUi
    /\ state.name = "postComment"
    /\ CurrentTask(state) # None
    /\ LET task == CurrentTask(state)[1]
           posted == IF value = "yes"
                     THEN <<Request("post", state.client, <<>>, None,
                                    task.gid, state.comment)>>
                     ELSE <<>>
           newWorkedOnTasks ==
             Append(state.workedOnTasks,
                    WorkedOnTask(task, state.status, state.comment))
       IN /\ state' =
               IF state.currentTaskIndex = Len(state.selectedTasks) - 1
               THEN [name |-> "summary", workedOnTasks |-> newWorkedOnTasks]
               ELSE [name |-> "status", client |-> state.client,
                     selectedTasks |-> state.selectedTasks,
                     workedOnTasks |-> newWorkedOnTasks,
                     currentTaskIndex |-> state.currentTaskIndex + 1]
          /\ Net({}, posted \o Effects(state', pat, me, TRUE, FALSE, FALSE))
          /\ hist' = [hist EXCEPT
                        !.confirmed = IF value = "yes"
                                      THEN @ \cup {task.gid} ELSE @,
                        !.posted = @ \cup {posted[k].task :
                                             k \in 1..Len(posted)}]
    /\ UNCHANGED <<variant, pat, me, workspaces, error, cli, clipboard,
                   exited, fx>>

\* Nothing waits for the answer to a comment post.
PostResponse(r) ==
    /\ variant = "app" /\ ~exited
    /\ BagIn(r, inflight) /\ r.kind = "post"
    /\ Net({r}, <<>>)
    /\ hist' = hist
    /\ UNCHANGED <<variant, state, pat, me, workspaces, error, cli,
                   clipboard, exited, fx>>

\* A handler that writes the clipboard whatever the answer.
handleCopyToClipboardAlways(value) ==
    /\ AppUi
    /\ state.name = "summary"
    /\ clipboard' = Some(generateSummaryTable(state.workedOnTasks))
    /\ exited' = TRUE
    /\ hist' = [hist EXCEPT !.copyAnswer = Some(value)]
    /\ UNCHANGED <<variant, state, pat, me, workspaces, error, cli, inflight,
                   checks, fx>>

\* exit(0) ends the process whatever the answer.
handleCopyToClipboard(value) ==
    /\ AppUi
    /\ state.name = "summary"
    /\ clipboard' = IF value = "yes" /\ state.name = "summary"
                    THEN Some(generateSummaryTable(state.workedOnTasks))
                    ELSE clipboard
    /\ exited' = TRUE
    /\ hist' = [hist EXCEPT !.copyAnswer = Some(value)]
    /\ UNCHANGED <<variant, state, pat, me, workspaces, error, cli, inflight, checks, fx>>

YesNo == {"yes", "no"}

NextApp ==
    \/ \E value \in Pats : handlePatSubmit(value)
    \/ \E r \in BagToSet(inflight), outcome \in Outcomes(Users) :
          UserResponse(r, outcome)
    \/ \E r \in BagToSet(inflight), outcome \in Outcomes(WorkspaceLists) :
          WorkspacesResponse(r, outcome)
    \/ \E value \in WorkspaceGids : handleWorkspaceSelect(value)
    \/ \E r \in BagToSet(inflight), outcome \in Outcomes(TaskLists) :
          TasksResponse(r, outcome)
    \/ \E values \in SUBSET {t.gid : t \in FetchedTasks} :
          handleTasksSelect(values)
    \/ \E value \in Statuses : handleStatusSubmit(value)
    \/ \E value \in Comments : handleCommentSubmit(value)
    \/ \E value \in YesNo : handlePostComment(value)
    \/ \E r \in BagToSet(inflight) : PostResponse(r)
    \/ \E value \in YesNo : handleCopyToClipboard(value)

SpecApp == InitApp /\ [][NextApp]_vars

\* ------------------------------------------------------ index.ts: main

CliRun == variant = "cli" /\ ~exited

\* The catch block of main, and its early return: a diagnostic, then the end.
CliAbort(message) ==
    /\ error' = Some(message)
    /\ exited' = TRUE

\* A loop that leaves after its first iteration.
CliAdvanceOnce(c) ==
    [c EXCEPT !.pc = "askClipboard",
              !.table = mainTable(c.workedOnTasks, c.selectedWorkspace)]

\* The for loop's next iteration, or the table and the clipboard question.
CliAdvance(c) ==
    IF c.i < Len(c.recentTasks)
    THEN [c EXCEPT !.pc = "askInclude", !.i = c.i + 1]
    ELSE [c EXCEPT !.pc = "askClipboard",
                   !.table = mainTable(c.workedOnTasks, c.selectedWorkspace)]

\* main up to its first suspension: the token prompt when the environment
\* holds no token, the current-user fetch otherwise.
InitCli ==
    /\ variant = "cli"
    /\ state = [name |-> "pat"]
    /\ pat = <<>>
    /\ me = None
    /\ workspaces = <<>>
    /\ error = None
    /\ \E token \in Pats :
          /\ cli = [CliIdle EXCEPT
                      !.token = token,
                      !.pc = IF token = <<>> THEN "askToken" ELSE "awaitMe"]
          /\ inflight = IF token = <<>> THEN EmptyBag
                        ELSE SetToBag({Request("me", token, <<>>, None,
                                               <<>>, <<>>)})
          /\ checks = IF token = <<>> THEN 0 ELSE 1
    /\ clipboard = None
    /\ exited = FALSE
    /\ hist = HistIdle
    /\ fx = FxIdle

\* input("Please enter your Asana Personal Access Token:") answered.
CliToken(value) ==
    /\ CliRun
    /\ cli.pc = "askToken"
    /\ IF value = <<>>
       THEN /\ CliAbort("Asana Personal Access Token is required.")
            /\ cli' = [cli EXCEPT !.pc = "done"]
            /\ Net({}, <<>>)
       ELSE /\ cli' = [cli EXCEPT !.pc = "awaitMe", !.token = value]
            /\ Net({}, <<Request("me", value, <<>>, None, <<>>, <<>>)>>)
            /\ UNCHANGED <<error, exited>>
    /\ hist' = hist
    /\ UNCHANGED <<variant, state, pat, me, workspaces, clipboard, fx>>

\* await client.GET("/users/{user_gid}") returns or throws.
CliUserResponse(r, outcome) ==
    /\ CliRun
    /\ cli.pc = "awaitMe"
    /\ BagIn(r, inflight) /\ r.kind = "me"
    /\ IF outcome.kind = "data"
       THEN /\ cli' = [cli EXCEPT !.pc = "awaitWorkspaces",
                                  !.me = outcome.data]
            /\ Net({r}, <<Request("workspaces", cli.token, <<>>, None, <<>>,
                                  <<>>)>>)
            /\ hist' = hist
            /\ UNCHANGED <<error, exited>>
       ELSE /\ CliAbort("Error connecting to Asana.")
            /\ cli' = [cli EXCEPT !.pc = "done"]
            /\ Net({r}, <<>>)
            /\ hist' = [hist EXCEPT !.readFailed = TRUE]
    /\ UNCHANGED <<variant, state, pat, me, workspaces, clipboard, fx>>

\* await client.GET("/workspaces") returns or throws.
CliWorkspacesResponse(r, outcome) ==
    /\ CliRun
    /\ cli.pc = "awaitWorkspaces"
    /\ BagIn(r, inflight) /\ r.kind = "workspaces"
    /\ IF outcome.kind = "data"
       THEN /\ cli' = [cli EXCEPT !.pc = "selectWorkspace",
                                  !.workspaces = outcome.data[1]]
            /\ hist' = hist
            /\ UNCHANGED <<error, exited>>
       ELSE /\ CliAbort("Error connecting to Asana.")
            /\ cli' = [cli EXCEPT !.pc = "done"]
            /\ hist' = [hist EXCEPT !.readFailed = TRUE]
    /\ Net({r}, <<>>)
    /\ UNCHANGED <<variant, state, pat, me, workspaces, clipboard, fx>>

\* select("Select a workspace:") answered with one of the choices; the tasks
\* fetch is sent with assignee me.gid, whatever that is.
CliSelectWorkspace(value) ==
    /\ CliRun
    /\ cli.pc = "selectWorkspace"
    /\ \E k \in 1..Len(cli.workspaces) : cli.workspaces[k] = value
    /\ cli' = [cli EXCEPT !.pc = "awaitTasks", !.selectedWorkspace = value]
    /\ Net({}, <<Request("tasks", cli.token, value,
                         IF Truthy(cli.me[1].gid) THEN cli.me[1].gid
                         ELSE None,
                         <<>>, <<>>)>>)
    /\ hist' = hist
    /\ UNCHANGED <<variant, state, pat, me, workspaces, error, clipboard,
                   exited, fx>>

\* await client.GET("/tasks") returns or throws; the filter; the loop begins.
CliTasksResponse(r, outcome) ==
    /\ CliRun
    /\ cli.pc = "awaitTasks"
    /\ BagIn(r, inflight) /\ r.kind = "tasks"
    /\ IF outcome.kind = "data"
       THEN LET recentTasks ==
                  RecentTasks(outcome.data[1], SevenDaysAgo(Now))
            IN /\ cli' = CliAdvance([cli EXCEPT !.recentTasks = recentTasks,
                                                !.workedOnTasks = <<>>,
                                                !.i = 0])
               /\ hist' = [hist EXCEPT !.filtered = recentTasks]
               /\ UNCHANGED <<error, exited>>
       ELSE /\ CliAbort("Error connecting to Asana.")
            /\ cli' = [cli EXCEPT !.pc = "done"]
            /\ hist' = [hist EXCEPT !.readFailed = TRUE]
    /\ Net({r}, <<>>)
    /\ UNCHANGED <<variant, state, pat, me, workspaces, clipboard, fx>>

\* confirm(`Add "..." to the list of tasks worked on today?`) answered.
CliInclude(value) ==
    /\ CliRun
    /\ cli.pc = "askInclude"
    /\ cli' = IF value = "yes" THEN [cli EXCEPT !.pc = "askStatus"]
              ELSE CliAdvance(cli)
    /\ hist' = [hist EXCEPT
                  !.chosen = IF value = "yes"
                             THEN @ \cup {cli.recentTasks[cli.i].gid}
                             ELSE @]
    /\ UNCHANGED <<variant, state, pat, me, workspaces, error, inflight, checks, clipboard, exited, fx>>

\* input("Status:") answered.
CliStatus(value) ==
    /\ CliRun
    /\ cli.pc = "askStatus"
    /\ cli' = [cli EXCEPT !.pc = "askComment", !.status = value]
    /\ hist' = [hist EXCEPT !.typedStatus = value]
    /\ UNCHANGED <<variant, state, pat, me, workspaces, error, inflight, checks, clipboard, exited, fx>>

\* input("Comment:") answered.
CliComment(value) ==
    /\ CliRun
    /\ cli.pc = "askComment"
    /\ cli' = [cli EXCEPT !.pc = "askPost", !.comment = value]
    /\ hist' = [hist EXCEPT !.typedComment = value]
    /\ UNCHANGED <<variant, state, pat, me, workspaces, error, inflight, checks, clipboard, exited, fx>>

\* A loop body that forgets the push.
CliPushNothing(c) == CliAdvance(c)

\* workedOnTasks.push({task, status, comment}) and the loop's next step.
CliPush(c) ==
    CliAdvance([c EXCEPT !.workedOnTasks =
                            Append(@, WorkedOnTask(c.recentTasks[c.i],
                                                   c.status, c.comment))])

\* confirm("Post comment to Asana?") answered: the POST is sent and awaited,
\* or the decision is pushed at once.
CliPostConfirm(value) ==
    /\ CliRun
    /\ cli.pc = "askPost"
    /\ LET task == cli.recentTasks[cli.i]
       IN /\ IF value = "yes"
             THEN /\ cli' = [cli EXCEPT !.pc = "awaitPost"]
                  /\ Net({}, <<Request("post", cli.token, <<>>, None,
                                       task.gid, cli.comment)>>)
             ELSE /\ cli' = CliPush(cli)
                  /\ Net({}, <<>>)
          /\ hist' = [hist EXCEPT
                        !.confirmed = IF value = "yes"
                                      THEN @ \cup {task.gid} ELSE @,
                        !.posted = IF value = "yes"
                                   THEN @ \cup {task.gid} ELSE @]
    /\ UNCHANGED <<variant, state, pat, me, workspaces, error, clipboard,
                   exited, fx>>

\* await client.POST(...) returns (with or without a payload: the result is
\* not looked at) or throws into the catch block.
CliPostResponse(r, outcome) ==
    /\ CliRun
    /\ cli.pc = "awaitPost"
    /\ BagIn(r, inflight) /\ r.kind = "post"
    /\ IF outcome.kind = "reject"
       THEN /\ CliAbort("Error connecting to Asana.")
            /\ cli' = [cli EXCEPT !.pc = "done"]
       ELSE /\ cli' = CliPush(cli)
            /\ UNCHANGED <<error, exited>>
    /\ Net({r}, <<>>)
    /\ hist' = hist
    /\ UNCHANGED <<variant, state, pat, me, workspaces, clipboard, fx>>

\* confirm("Copy markdown output to clipboard?") answered; main returns.
CliClipboard(value) ==
    /\ CliRun
    /\ cli.pc = "askClipboard"
    /\ clipboard' = IF value = "yes" THEN Some(cli.table) ELSE clipboard
    /\ cli' = [cli EXCEPT !.pc = "done"]
    /\ exited' = TRUE
    /\ hist' = [hist EXCEPT !.copyAnswer = Some(value)]
    /\ UNCHANGED <<variant, state, pat, me, workspaces, error, inflight, checks, fx>>

NextCli ==
    \/ \E value \in Pats : CliToken(value)
    \/ \E r \in BagToSet(inflight), outcome \in Outcomes(Users) :
          CliUserResponse(r, outcome)
    \/ \E r \in BagToSet(inflight), outcome \in Outcomes(WorkspaceLists) :
          CliWorkspacesResponse(r, outcome)
    \/ \E value \in WorkspaceGids : CliSelectWorkspace(value)
    \/ \E r \in BagToSet(inflight), outcome \in Outcomes(TaskLists) :
          CliTasksResponse(r, outcome)
    \/ \E value \in YesNo : CliInclude(value)
    \/ \E value \in Statuses : CliStatus(value)
    \/ \E value \in Comments : CliComment(value)
    \/ \E value \in YesNo : CliPostConfirm(value)
    \/ \E r \in BagToSet(inflight), outcome \in Outcomes({"ok"}) :
          CliPostResponse(r, outcome)
    \/ \E value \in YesNo : CliClipboard(value)

\* ------------------------------------------------------- both programs

Init == InitApp \/ InitCli

Next == NextApp \/ NextCli

Spec == Init /\ [][Next]_vars

\* ======================================================= claims C1 .. C8

ReviewStates == {"status", "comment", "postComment"}

\* The accumulated decisions (workedOnTasks).
Decisions ==
    IF variant = "cli" THEN cli.workedOnTasks
    ELSE IF state.name \in ReviewStates \cup {"summary"}
         THEN state.workedOnTasks
         ELSE <<>>

\* The summary is on the screen.
Summarizing ==
    \/ variant = "app" /\ state.name = "summary"
    \/ variant = "cli" /\ cli.pc = "askClipboard"

IsPrefix(a, b) == Len(a) <= Len(b) /\ SubSeq(b, 1, Len(a)) = a

Outstanding == BagCardinality(inflight)

\* The requests the step sends.
Sent ==
    {r \in BagToSet(inflight') : CopiesIn(r, inflight') > CopiesIn(r, inflight)}

\* A prompt waits for the user.
PromptShown ==
    \/ /\ AppUi
       /\ \/ state.name \in {"pat", "workspaces", "selectTasks", "summary"}
          \/ state.name \in ReviewStates /\ CurrentTask(state) # None
    \/ /\ CliRun
       /\ cli.pc \in {"askToken", "selectWorkspace", "askInclude",
                      "askStatus", "askComment", "askPost", "askClipboard"}

\* The step is handleTasksSelect.
TasksSelected ==
    variant = "app" /\ state.name = "selectTasks"
    /\ state'.name \in ReviewStates \cup {"summary"}

\* The step is handlePostComment.
PostAnswered ==
    variant = "app" /\ state.name = "postComment"
    /\ state'.name \in {"status", "summary"}

\* The decision the post-confirmation step is to record.
CollectedDecision(task) ==
    WorkedOnTask(task, hist.typedStatus, hist.typedComment)

\* ---------------------------------------------------------------- claim C1

\* C1: when the filtered task list is empty, or the user submits an empty
\* selection, the workflow goes straight to Summarizing with an empty decision
\* sequence and the header-only table; it does not stay in a per-task review
\* state.
C1_EmptyGoesToSummary ==
    /\ [][/\ (TasksSelected /\ hist'.chosen = {}) =>
               (state'.name = "summary" /\ state'.workedOnTasks = <<>>)
          /\ (variant = "cli" /\ cli.pc = "awaitTasks"
              /\ cli'.pc # "done" /\ cli'.recentTasks = <<>>) =>
               (/\ cli'.pc = "askClipboard"
                /\ cli'.workedOnTasks = <<>>
                /\ Lines(cli'.table) = <<HeaderRow, SeparatorRow>>)]_vars
    /\ [](variant = "app" /\ state.name \in ReviewStates
            => CurrentTask(state) # None)

\* ---------------------------------------------------------------- claim C2

\* C2 as stated: once the post-confirmation question is answered, the
\* decision (task, collected status, collected comment) is appended, whether
\* the post was skipped, succeeded or failed.
C2_Original ==
    [][/\ PostAnswered =>
            state'.workedOnTasks
              = Append(state.workedOnTasks,
                       CollectedDecision(CurrentTask(state)[1]))
       /\ (variant = "cli"
           /\ \/ cli.pc = "askPost" /\ cli'.pc # "awaitPost"
              \/ cli.pc = "awaitPost" /\ cli'.pc # "awaitPost") =>
            cli'.workedOnTasks
              = Append(cli.workedOnTasks,
                       CollectedDecision(cli.recentTasks[cli.i]))]_vars

\* C2 amended: the decision is appended when the post was skipped, and when
\* it was sent and the call returned (with or without a payload); App appends
\* it at once, whatever becomes of the post; in main a post call that throws
\* ends the run and appends nothing.
C2_AppendedUnlessPostThrows ==
    [][/\ PostAnswered =>
            state'.workedOnTasks
              = Append(state.workedOnTasks,
                       CollectedDecision(CurrentTask(state)[1]))
       /\ (variant = "cli"
           /\ \/ cli.pc = "askPost" /\ cli'.pc # "awaitPost"
              \/ cli.pc = "awaitPost" /\ cli'.pc # "awaitPost"
           /\ error' = None) =>
            cli'.workedOnTasks
              = Append(cli.workedOnTasks,
                       CollectedDecision(cli.recentTasks[cli.i]))
       /\ (variant = "cli" /\ cli.pc = "awaitPost" /\ error' # None) =>
            (cli'.workedOnTasks = cli.workedOnTasks /\ exited')]_vars

\* main has posted one comment, the call returned, and two decisions are
\* recorded: one whose post was confirmed, one whose post was skipped.
C2_Witness ==
    /\ variant = "cli"
    /\ error = None
    /\ Len(cli.workedOnTasks) = 2
    /\ Cardinality(hist.posted) = 1
    /\ Outstanding = 0

\* ---------------------------------------------------------------- claim C3

\* C3: at Summarizing the decisions are exactly one per included task, none
\* for a declined task, in the order of the filtered list; a decision once
\* appended is never changed or removed.
C3_OnePerIncludedInOrderAndKept ==
    /\ [](Summarizing =>
            /\ Len(Decisions)
                 = Len(SelectSeq(hist.filtered,
                                 LAMBDA t : t.gid \in hist.chosen))
            /\ \A k \in 1..Len(Decisions) :
                 Decisions[k].task
                   = SelectSeq(hist.filtered,
                               LAMBDA t : t.gid \in hist.chosen)[k])
    /\ [][IsPrefix(Decisions, Decisions')]_vars

\* ---------------------------------------------------------------- claim C4

\* C4: PostComment is invoked only for an included task, only after the user
\* confirmed posting for it, at most once per task, with that task's
\* identifier and collected comment; with no confirmation there is no call.
C4_PostOnlyConfirmedOncePerTask ==
    /\ [][\A r \in Sent :
            r.kind = "post" =>
               /\ r.task \in hist'.chosen
               /\ r.task \in hist'.confirmed
               /\ r.task \notin hist.posted
               /\ r.text = hist'.typedComment]_vars
    /\ [](hist.confirmed = {} =>
            hist.posted = {}
            /\ \A r \in BagToSet(inflight) : r.kind # "post")

\* ---------------------------------------------------------------- claim C5

\* C5: at most one user interaction or network call is outstanding: never two
\* requests in flight, never a prompt while a request is in flight.
C5_OneOutstanding ==
    /\ Outstanding <= 1
    /\ Outstanding = 1 => ~PromptShown

\* ---------------------------------------------------------------- claim C6

\* C6: when a read call (current user, workspaces, tasks) fails or returns no
\* usable payload, a diagnostic is shown and the run halts: no further
\* network call and no further workflow step.
C6_ReadFailureHalts ==
    /\ [][hist.readFailed =>
            /\ inflight' \sqsubseteq inflight
            /\ state'.name = state.name
            /\ cli' = cli]_vars
    /\ [](hist.readFailed => error # None)

\* ---------------------------------------------------------------- claim C7

\* The bearer credential the program holds: the token main read, the text of
\* App's credential field.
Credential == IF variant = "cli" THEN cli.token ELSE pat

\* The step leaves the program asking for a credential and holding none.
NoCredentialAfterStep ==
    \/ variant' = "cli" /\ cli'.token = <<>>
    \/ variant' = "app" /\ state'.name = "pat" /\ pat' = <<>>

\* C7: while the bearer credential is missing or empty no network call is
\* issued; an empty credential never reaches the current-user fetch.
C7_NoCallWithoutCredential ==
    /\ [](\A r \in BagToSet(inflight) : r.pat # <<>>)
    /\ [](variant = "cli" /\ cli.token = <<>> =>
            checks = 0 /\ inflight = EmptyBag)
    /\ [][NoCredentialAfterStep => Sent = {}]_vars
    /\ [][\A r \in Sent : r.kind = "me" => r.pat = Credential']_vars

\* App checked a credential, the user emptied the field, the check failed:
\* the credential effect ran again with the empty credential and sent nothing.
C7_Witness ==
    /\ variant = "app"
    /\ state.name = "pat"
    /\ pat = <<>>
    /\ checks = 1
    /\ error # None
    /\ inflight = EmptyBag

\* ---------------------------------------------------------------- claim C8

\* The current-user payload held no identifier.
UserGidUnresolved ==
    \/ variant = "app" /\ me # None /\ ~Truthy(me[1].gid)
    \/ variant = "cli" /\ cli.me # None /\ ~Truthy(cli.me[1].gid)

\* C8: if the user identifier cannot be resolved the whole run fails: the
\* tasks fetch is never sent with an undefined assignee and the workflow does
\* not wait in the task-fetching state.
C8_UnresolvedUserFailsRun ==
    /\ \A r \in BagToSet(inflight) : r.kind = "tasks" => r.assignee # None
    /\ ~(variant = "app" /\ UserGidUnresolved /\ state.name = "tasks")

\* ===================================================== claims C11 .. C18

\* --------------------------------------------------------------- claim C11

\* The URL of a summary row as the workflow is to build it: scoped by the
\* workspace when the first membership has a project identifier.
DeepLink(task, workspace) ==
    IF Truthy(FirstProjectGid(task))
    THEN UrlBase \o workspace \o S("/") \o FirstProjectGid(task)[1]
                 \o S("/") \o task.gid
    ELSE UrlBase \o S("0/0/") \o task.gid

\* C11: the URL of a summary row is https://app.asana.com/{workspace}/
\* {project identifier}/{task identifier} when the first membership has a
\* project identifier and https://app.asana.com/0/0/{task identifier}
\* otherwise, and both programs build the same URL for the same task and
\* workspace.
C11_WorkspaceScopedUrl ==
    (fx.phase = "rendered" /\ NoLineBreakIn(fx.worked, fx.workspace)) =>
       \A i \in 1..Len(fx.worked) :
          LET row == ExpectedRow(Cells(fx.worked[i],
                                       DeepLink(fx.worked[i].task,
                                                fx.workspace)))
          IN /\ Lines(fx.cliTable)[i + 2] = row
             /\ Lines(fx.table)[i + 2] = row

\* --------------------------------------------------------------- claim C12

\* The name in the first membership entry, none when the entry, the project
\* or section, or the name is missing or empty.
FirstName(task, field) ==
    IF Len(task.memberships) = 0 THEN None
    ELSE LET entry == task.memberships[1][field]
         IN IF entry = None THEN None
            ELSE IF entry[1].name = None \/ entry[1].name = Some(<<>>)
                 THEN None
                 ELSE entry[1].name

LabelOr(name, fallback) == IF name = None THEN fallback ELSE name[1]

Contains(text, piece) ==
    \E k \in 1..(Len(text) - Len(piece) + 1) :
       SubSeq(text, k, k + Len(piece) - 1) = piece

Question ==
    IF variant = "app" /\ AppUi /\ state.name \in ReviewStates
       /\ CurrentTask(state) # None
    THEN Some([step |-> state.name, task |-> CurrentTask(state)[1].gid,
               at |-> state.currentTaskIndex + 1])
    ELSE IF CliRun /\ cli.pc \in {"askInclude", "askStatus", "askComment",
                                  "askPost"}
    THEN Some([step |-> CASE cli.pc = "askInclude" -> "include"
                          [] cli.pc = "askStatus" -> "status"
                          [] cli.pc = "askComment" -> "comment"
                          [] cli.pc = "askPost" -> "postComment",
               task |-> cli.recentTasks[cli.i].gid, at |-> cli.i])
    ELSE None

\* The next state shows question `step` about the task of the question now
\* on the screen.
NextQuestionIs(step) ==
    Question' = Some([Question[1] EXCEPT !.step = step])

\* The number of tasks under review.
ReviewLength ==
    IF variant = "cli" THEN Len(cli.recentTasks)
    ELSE IF state.name \in ReviewStates THEN Len(state.selectedTasks) ELSE 0

\* C13: for each task the sub-steps run in the order AskInclude, AskStatus,
\* AskComment, AskPostConfirm, the last three only for an included task; a
\* declined task leads directly to the next task, or to Summarizing after the
\* last one.
C13_SubStepsInOrder ==
    /\ [][(Question # None /\ Question' # Question) =>
            CASE Question[1].step = "include" ->
                   \/ NextQuestionIs("status") /\ Question[1].task \in hist'.chosen
                   \/ /\ Question[1].task \notin hist'.chosen
                      /\ IF Question[1].at < ReviewLength
                         THEN /\ Question' # None
                              /\ Question'[1].step = "include"
                              /\ Question'[1].at = Question[1].at + 1
                         ELSE Summarizing'
              [] Question[1].step = "status" -> NextQuestionIs("comment")
              [] Question[1].step = "comment" -> NextQuestionIs("postComment")
              [] OTHER -> TRUE]_vars
    /\ [](Question # None /\ Question[1].step # "include" =>
            Question[1].task \in hist.chosen)

\* --------------------------------------------------------------- claim C14

\* Every task of the list under review has been visited and the steps of the
\* last one are complete: the step now taken is the last answer about the
\* last task, or the list is empty.
LastTaskCompletes ==
    \/ /\ variant = "app"
       /\ state.name = "postComment"
       /\ state.currentTaskIndex = Len(state.selectedTasks) - 1
    \/ /\ variant = "cli"
       /\ cli.i = Len(cli.recentTasks)
       /\ \/ cli.pc \in {"askInclude", "askPost", "awaitPost"}
          \/ cli.pc = "awaitTasks" /\ cli'.recentTasks = <<>>

\* Every task of the list has its outcome: a decision, or declined.
AllVisited ==
    IF variant = "cli"
    THEN /\ cli.i = Len(cli.recentTasks)
         /\ \A k \in 1..Len(cli.recentTasks) :
               \/ cli.recentTasks[k].gid \notin hist.chosen
               \/ \E n \in 1..Len(cli.workedOnTasks) :
                     cli.workedOnTasks[n].task = cli.recentTasks[k]
    ELSE \A k \in 1..Len(hist.filtered) :
            \/ hist.filtered[k].gid \notin hist.chosen
            \/ \E n \in 1..Len(state.workedOnTasks) :
                  state.workedOnTasks[n].task = hist.filtered[k]

\* C14: Summarizing is entered only after every task of the list under
\* review has been visited, directly after the steps of the last task
\* complete; never while an unvisited task remains.
C14_SummaryAfterLastTask ==
    /\ [][(~Summarizing /\ Summarizing') => LastTaskCompletes]_vars
    /\ [](Summarizing => AllVisited)

\* The summary after a review of two tasks, one included and one declined.
C14_Witness ==
    /\ Summarizing
    /\ Len(hist.filtered) = 2
    /\ Cardinality(hist.chosen) = 1
    /\ Len(Decisions) = 1

\* --------------------------------------------------------------- claim C15

\* The cursor, the task list and the accumulated decisions of a review state.
ReviewFrame(st) == <<st.currentTaskIndex, st.selectedTasks, st.workedOnTasks>>

CliFrame(c) == <<c.i, c.recentTasks, c.workedOnTasks>>

\* b is a with exactly one element appended.
OneAppended(a, b) == Len(b) = Len(a) + 1 /\ IsPrefix(a, b)

\* C15: the workflow state changes only by advancing the cursor or appending
\* a decision: the status and comment steps leave cursor, task list and
\* decisions unchanged; the post-confirmation step appends exactly one
\* decision and advances the cursor by one (past the end into the summary
\* after the last task); in every review state of the state-machine program
\* the number of decisions equals the cursor index.
C15_OnlyCursorAndDecisionsChange ==
    /\ [][(variant = "app" /\ state.name \in ReviewStates /\ state' # state) =>
            CASE state.name = "status" ->
                   /\ state'.name = "comment"
                   /\ ReviewFrame(state') = ReviewFrame(state)
              [] state.name = "comment" ->
                   /\ state'.name = "postComment"
                   /\ ReviewFrame(state') = ReviewFrame(state)
              [] state.name = "postComment" ->
                   /\ OneAppended(state.workedOnTasks, state'.workedOnTasks)
                   /\ IF state.currentTaskIndex + 1 < Len(state.selectedTasks)
                      THEN /\ state'.name = "status"
                           /\ state'.currentTaskIndex
                                = state.currentTaskIndex + 1
                           /\ state'.selectedTasks = state.selectedTasks
                      ELSE state'.name = "summary"]_vars
    /\ [][(variant = "cli" /\ cli.pc \in {"askStatus", "askComment"}) =>
            CliFrame(cli') = CliFrame(cli)]_vars
    /\ [][(variant = "cli" /\ cli.pc \in {"askPost", "awaitPost"}
           /\ cli'.pc \notin {"awaitPost", "done"}) =>
            /\ OneAppended(cli.workedOnTasks, cli'.workedOnTasks)
            /\ cli'.recentTasks = cli.recentTasks
            /\ IF cli.i < Len(cli.recentTasks)
               THEN cli'.i = cli.i + 1 /\ cli'.pc = "askInclude"
               ELSE cli'.pc = "askClipboard"]_vars
    /\ [](variant = "app" /\ state.name \in ReviewStates =>
            Len(state.workedOnTasks) = state.currentTaskIndex)

\* --------------------------------------------------------------- claim C16

\* The table rendered from the final decision sequence.
FinalTable ==
    IF variant = "cli"
    THEN mainTable(cli.workedOnTasks, cli.selectedWorkspace)
    ELSE generateSummaryTable(state.workedOnTasks)

\* C16: once the summary is shown and the clipboard question is answered the
\* process terminates, whether the answer is yes or no; the clipboard is
\* written only on yes, and what is written is the table rendered from the
\* final decision sequence.
C16_ExitAfterClipboardQuestion ==
    /\ [][hist'.copyAnswer # hist.copyAnswer =>
            /\ Summarizing
            /\ hist.copyAnswer = None
            /\ exited'
            /\ clipboard' = IF hist'.copyAnswer = Some("yes")
                            THEN Some(FinalTable)
                            ELSE clipboard]_vars
    /\ [][clipboard' # clipboard => hist'.copyAnswer = Some("yes")]_vars
    /\ [](hist.copyAnswer = Some("no") => clipboard = None)
    /\ [](hist.copyAnswer # None => exited)
    /\ [][exited => vars' = vars]_vars

\* The process has ended after a yes: the clipboard holds the table of one
\* decision.
C16_Witness ==
    /\ exited
    /\ error = None
    /\ hist.copyAnswer = Some("yes")
    /\ clipboard # None
    /\ Len(Decisions) = 1
    /\ Len(Lines(clipboard[1])) = 3

\* --------------------------------------------------------------- claim C17

\* C17: every comment post the user confirmed has completed, its response
\* received, before the process exits; the process does not end while a
\* confirmed comment post is in flight.
C17_NoExitWithPostInFlight ==
    exited => \A r \in BagToSet(inflight) : r.kind # "post"

\* --------------------------------------------------------------- claim C18

\* The phases in their order.
PhaseRank(name) ==
    CASE name = "pat" -> 0
      [] name = "workspaces" -> 1
      [] name = "tasks" -> 2
      [] name = "selectTasks" -> 3
      [] name \in ReviewStates -> 4
      [] name = "summary" -> 5
      [] OTHER -> 6

\* The step receives the answer to a credential check.
CredentialAnswered ==
    \E r \in BagToSet(inflight) :
       r.kind = "me" /\ CopiesIn(r, inflight') < CopiesIn(r, inflight)

\* C18: the phase only moves forward (credential, workspaces, tasks, task
\* selection, review, summary, exit): a late response never moves the state
\* back to an earlier phase nor replaces a state that holds decisions, and no
\* error is set by a credential response once the credential phase is left.
C18_PhaseOnlyForward ==
    /\ [][variant = "app" =>
            PhaseRank(state'.name) >= PhaseRank(state.name)]_vars
    /\ [][(variant = "app" /\ Decisions # <<>>) =>
            IsPrefix(Decisions, Decisions')]_vars
    /\ [][(variant = "app" /\ CredentialAnswered /\ state.name # "pat") =>
            error' = error]_vars

====
